---- MODULE Spec2Model ----
(***************************************************************************)
(* Model of src/app.py: the POST /api/contar handler (api_contar), the     *)
(* reply parsing (parse_json_safely, gemini_generate_json), the counts     *)
(* normalisation (normalize_counts_map) and the vertical geometry of the   *)
(* sprite builder (build_right_only_sprite).                               *)
(*                                                                         *)
(* Representation.                                                         *)
(*  - A Python str is a sequence of symbols; a symbol is one character     *)
(*    (" ", "-", "7", ...) or an identifier taken as a unit ("contagem").  *)
(*  - The model's reply text is a sequence of lexemes (tokens): JSON       *)
(*    punctuation, literals, the Markdown fences, whitespace, prose words. *)
(*  - A Python value is a record [t, n, s, keys, items, text] of one       *)
(*    shape for every type, so that values of different types compare.     *)
(***************************************************************************)
EXTENDS Integers, Sequences, FiniteSets, TLC

\* ------------------------------------------------------------------------
\* Program constants (src/app.py:34-47)
\* ------------------------------------------------------------------------
LINES ==
  << "aerosaculite", "celulite", "contusao", "hematomas", "hepatite",
     "micoplasmose", "pericardite", "peritonite", "salmonelose", "tuberculose" >>

LineSet == { LINES[i] : i \in 1..Len(LINES) }

\* TOP_RATIO = 0.08 and BOTTOM_RATIO = 0.08, as hundredths.  For every height
\* below 200000 the double products h * 0.08 and h * (1 - 0.08) truncate to
\* the same integers as (h * 8) \div 100 and (h * 92) \div 100.
TOP_RATIO_PCT == 8
BOTTOM_RATIO_PCT == 8
\* RIGHT_ZOOM = 1.6, as tenths
RIGHT_ZOOM_TENTHS == 16
\* the clamp of normalize_counts_map: max(0, min(10, v))
COUNT_MIN == 0
COUNT_MAX == 10
\* range(10) in build_right_only_sprite
N_BANDS == 10
\* "if bot <= top + 10" in build_right_only_sprite
MIN_USABLE == 10
\* CENTER_SHIFT_PCT = 0.035: 0.5 - 0.035, as thousandths.  For every width
\* below 1000 the double product w * (0.5 - 0.035) truncates to (w * 465) \div 1000.
CENTER_PERMILLE == 465
\* RIGHT_FRACTION = 0.55, as hundredths
RIGHT_FRACTION_PCT == 55

\* ------------------------------------------------------------------------
\* Python values
\* ------------------------------------------------------------------------
PyVal(t, n, s, keys, items, text) ==
  [t |-> t, n |-> n, s |-> s, keys |-> keys, items |-> items, text |-> text]

PyNone == PyVal("none", 0, <<>>, <<>>, <<>>, <<>>)
PyInt(n) == PyVal("int", n, <<>>, <<>>, <<>>, <<>>)
\* a float with one decimal digit, held as tenths: 3.7 is PyFloat(37)
PyFloat(tenths) == PyVal("float", tenths, <<>>, <<>>, <<>>, <<>>)
PyNaN == PyVal("nan", 0, <<>>, <<>>, <<>>, <<>>)
\* n is the sign of the infinity
PyInf(sign) == PyVal("inf", sign, <<>>, <<>>, <<>>, <<>>)
PyBool(b) == PyVal("bool", IF b THEN 1 ELSE 0, <<>>, <<>>, <<>>, <<>>)
PyStr(s) == PyVal("str", 0, s, <<>>, <<>>, <<>>)
\* a str holding a whole text (a sequence of lexemes)
PyText(text) == PyVal("str", 0, <<>>, <<>>, <<>>, text)
PyList(items) == PyVal("list", 0, <<>>, <<>>, items, <<>>)
\* a dict: keys[i] maps to items[i]; a later duplicate of a key wins
PyDict(keys, items) == PyVal("dict", 0, <<>>, keys, items, <<>>)
EmptyDict == PyDict(<<>>, <<>>)

\* the str made of one identifier
Str(word) == << word >>

IsDict(v) == v.t = "dict"

HasKey(d, key) == \E i \in 1..Len(d.keys) : d.keys[i] = key

\* dict.get(key, default)
DictGet(d, key, default) ==
  IF HasKey(d, key)
  THEN LET last == CHOOSE i \in 1..Len(d.keys) :
                     /\ d.keys[i] = key
                     /\ \A j \in (i+1)..Len(d.keys) : d.keys[j] # key
       IN d.items[last]
  ELSE default

\* ------------------------------------------------------------------------
\* Lexemes of the reply text
\* ------------------------------------------------------------------------
Tok(k) == [k |-> k, s |-> <<>>, n |-> 0]
TStr(s) == [k |-> "str", s |-> s, n |-> 0]
TInt(n) == [k |-> "int", s |-> <<>>, n |-> n]
TFlt(tenths) == [k |-> "flt", s |-> <<>>, n |-> tenths]
TInf(sign) == [k |-> "inf", s |-> <<>>, n |-> sign]
TWord(w) == [k |-> "word", s |-> << w >>, n |-> 0]

RECURSIVE LStrip(_)
LStrip(text) ==
  IF text # <<>> /\ Head(text).k = "ws" THEN LStrip(Tail(text)) ELSE text

RECURSIVE RStrip(_)
RStrip(text) ==
  IF text # <<>> /\ text[Len(text)].k = "ws"
  THEN RStrip(SubSeq(text, 1, Len(text) - 1))
  ELSE text

\* str.strip()
Strip(text) == RStrip(LStrip(text))

\* text.replace("```json", "").replace("```", "")
RemoveFences(text) == SelectSeq(text, LAMBDA tk : tk.k \notin {"fence_json", "fence"})

\* ------------------------------------------------------------------------
\* json.loads, on lexemes
\* ------------------------------------------------------------------------
ParseFail == [ok |-> FALSE, val |-> PyNone, pos |-> 0]
ParseOk(v, pos) == [ok |-> TRUE, val |-> v, pos |-> pos]

RECURSIVE SkipWs(_, _)
SkipWs(toks, i) ==
  IF i <= Len(toks) /\ toks[i].k = "ws" THEN SkipWs(toks, i + 1) ELSE i

RECURSIVE ParseValue(_, _)
RECURSIVE ParseMembers(_, _, _, _)
RECURSIVE ParseElements(_, _, _)

ParseValue(toks, i) ==
  IF i > Len(toks) THEN ParseFail
  ELSE LET tk == toks[i]
           j == SkipWs(toks, i + 1)
       IN CASE tk.k = "lb" ->
                 IF j <= Len(toks) /\ toks[j].k = "rb"
                 THEN ParseOk(EmptyDict, j + 1)
                 ELSE ParseMembers(toks, j, <<>>, <<>>)
            [] tk.k = "ls" ->
                 IF j <= Len(toks) /\ toks[j].k = "rs"
                 THEN ParseOk(PyList(<<>>), j + 1)
                 ELSE ParseElements(toks, j, <<>>)
            [] tk.k = "str" -> ParseOk(PyStr(tk.s), i + 1)
            [] tk.k = "int" -> ParseOk(PyInt(tk.n), i + 1)
            [] tk.k = "flt" -> ParseOk(PyFloat(tk.n), i + 1)
            [] tk.k = "true" -> ParseOk(PyBool(TRUE), i + 1)
            [] tk.k = "false" -> ParseOk(PyBool(FALSE), i + 1)
            [] tk.k = "null" -> ParseOk(PyNone, i + 1)
            [] tk.k = "nan" -> ParseOk(PyNaN, i + 1)
            [] tk.k = "inf" -> ParseOk(PyInf(tk.n), i + 1)
            [] OTHER -> ParseFail

\* at i: the key of the next member of an object
ParseMembers(toks, i, keys, items) ==
  IF i > Len(toks) \/ toks[i].k # "str" THEN ParseFail
  ELSE LET c == SkipWs(toks, i + 1) IN
    IF c > Len(toks) \/ toks[c].k # "colon" THEN ParseFail
    ELSE LET r == ParseValue(toks, SkipWs(toks, c + 1)) IN
      IF ~r.ok THEN ParseFail
      ELSE LET e == SkipWs(toks, r.pos)
               keys2 == Append(keys, toks[i].s)
               items2 == Append(items, r.val)
           IN IF e > Len(toks) THEN ParseFail
              ELSE IF toks[e].k = "rb" THEN ParseOk(PyDict(keys2, items2), e + 1)
              ELSE IF toks[e].k = "comma"
                   THEN ParseMembers(toks, SkipWs(toks, e + 1), keys2, items2)
              ELSE ParseFail

\* at i: the next element of an array
ParseElements(toks, i, items) ==
  LET r == ParseValue(toks, i) IN
    IF ~r.ok THEN ParseFail
    ELSE LET e == SkipWs(toks, r.pos)
             items2 == Append(items, r.val)
         IN IF e > Len(toks) THEN ParseFail
            ELSE IF toks[e].k = "rs" THEN ParseOk(PyList(items2), e + 1)
            ELSE IF toks[e].k = "comma"
                 THEN ParseElements(toks, SkipWs(toks, e + 1), items2)
            ELSE ParseFail

\* json.loads(text): one value, whitespace around it, nothing after it
json_loads(text) ==
  LET r == ParseValue(text, SkipWs(text, 1)) IN
    IF r.ok /\ SkipWs(text, r.pos) > Len(text)
    THEN [ok |-> TRUE, val |-> r.val]
    ELSE [ok |-> FALSE, val |-> PyNone]

\* re.search(r"\{[\s\S]*\}", text): from the first "{" to the last "}" after it
HasBraceMatch(text) ==
  \E i, j \in 1..Len(text) : i < j /\ text[i].k = "lb" /\ text[j].k = "rb"

BraceMatch(text) ==
  LET first == CHOOSE i \in 1..Len(text) :
                 /\ text[i].k = "lb"
                 /\ \A m \in 1..(i-1) : text[m].k # "lb"
      last == CHOOSE j \in 1..Len(text) :
                 /\ text[j].k = "rb"
                 /\ \A m \in (j+1)..Len(text) : text[m].k # "rb"
  IN SubSeq(text, first, last)

\* the text json.loads is given: stripped, fences removed, stripped again
CleanText(text) == Strip(RemoveFences(Strip(text)))

parse_json_safely(text) ==
  LET t == CleanText(text)
      strict == json_loads(t)
  IN IF strict.ok THEN strict.val
     ELSE IF HasBraceMatch(t)
          THEN LET inner == json_loads(BraceMatch(t))
               IN IF inner.ok THEN inner.val ELSE EmptyDict
          ELSE EmptyDict

\* the body of gemini_generate_json after generate_content returned `text`
gemini_generate_json(text) ==
  LET stripped == Strip(text)
      data == parse_json_safely(stripped)
  IN IF IsDict(data) THEN data
     ELSE PyDict(<< Str("_raw") >>, << PyText(stripped) >>)

\* ------------------------------------------------------------------------
\* int(v) and normalize_counts_map
\* ------------------------------------------------------------------------
DigitChars == << "0", "1", "2", "3", "4", "5", "6", "7", "8", "9" >>
IsDigit(c) == \E d \in 1..Len(DigitChars) : DigitChars[d] = c
DigitVal(c) == (CHOOSE d \in 1..Len(DigitChars) : DigitChars[d] = c) - 1

RECURSIVE LStripStr(_)
LStripStr(s) == IF s # <<>> /\ Head(s) = " " THEN LStripStr(Tail(s)) ELSE s

RECURSIVE RStripStr(_)
RStripStr(s) ==
  IF s # <<>> /\ s[Len(s)] = " " THEN RStripStr(SubSeq(s, 1, Len(s) - 1)) ELSE s

\* the digits of an int literal: digits, single underscores only between them
DigitsOk(d) ==
  /\ d # <<>>
  /\ \A i \in 1..Len(d) :
       \/ IsDigit(d[i])
       \/ /\ d[i] = "_"
          /\ i > 1 /\ i < Len(d)
          /\ IsDigit(d[i-1]) /\ IsDigit(d[i+1])

RECURSIVE DigitsVal(_, _)
DigitsVal(d, acc) ==
  IF d = <<>> THEN acc
  ELSE IF Head(d) = "_" THEN DigitsVal(Tail(d), acc)
  ELSE DigitsVal(Tail(d), acc * 10 + DigitVal(Head(d)))

IntFail == [ok |-> FALSE, n |-> 0]
IntOk(n) == [ok |-> TRUE, n |-> n]

\* int(s) for a str: surrounding whitespace, an optional sign, the digits
IntOfStr(s) ==
  LET t == RStripStr(LStripStr(s))
      signed == t # <<>> /\ Head(t) \in {"+", "-"}
      d == IF signed THEN Tail(t) ELSE t
  IN IF DigitsOk(d)
     THEN IntOk(IF signed /\ Head(t) = "-" THEN 0 - DigitsVal(d, 0) ELSE DigitsVal(d, 0))
     ELSE IntFail

\* int(x) for a float: truncation toward zero
TruncTenths(tenths) ==
  IF tenths >= 0 THEN tenths \div 10 ELSE 0 - ((0 - tenths) \div 10)

\* int(v): ok is FALSE where Python raises (TypeError, ValueError, OverflowError)
PyIntOf(v) ==
  CASE v.t = "int" -> IntOk(v.n)
    [] v.t = "bool" -> IntOk(v.n)
    [] v.t = "float" -> IntOk(TruncTenths(v.n))
    [] v.t = "str" -> IF v.text = <<>> THEN IntOfStr(v.s) ELSE IntFail
    [] OTHER -> IntFail

Min(a, b) == IF a < b THEN a ELSE b
Max(a, b) == IF a > b THEN a ELSE b

\* the clamp without its lower side: min(10, v)
ClampUpperOnly(v) == Min(COUNT_MAX, v)

\* max(0, min(10, v))
Clamp(v) == Max(COUNT_MIN, Min(COUNT_MAX, v))

\* one iteration of the loop of normalize_counts_map
NormalizeOne(raw, k) ==
  LET v == DictGet(raw, Str(k), PyInt(0))
      r == PyIntOf(v)
  IN Clamp(IF r.ok THEN r.n ELSE 0)

\* a loop over the keys of raw instead of LINES: no default for a missing label
normalize_counts_map_PresentOnly(raw) ==
  [k \in { l \in LineSet : HasKey(raw, Str(l)) } |->
     LET r == PyIntOf(DictGet(raw, Str(k), PyInt(0)))
     IN Max(COUNT_MIN, Min(COUNT_MAX, IF r.ok THEN r.n ELSE 0))]

\* normalize_counts_map(raw) for a dict raw
normalize_counts_map(raw) == [k \in LineSet |-> NormalizeOne(raw, k)]

\* raw.get raises AttributeError when raw is no dict
NormalizeRaises(raw) == ~IsDict(raw)

\* ------------------------------------------------------------------------
\* build_right_only_sprite: the geometry (src/app.py:171-220)
\* ------------------------------------------------------------------------
\* int(h * TOP_RATIO)
TrimTop(h) == (h * TOP_RATIO_PCT) \div 100
\* int(h * (1 - BOTTOM_RATIO))
TrimBot(h) == (h * (100 - BOTTOM_RATIO_PCT)) \div 100

\* "if bot <= top + 10: top, bot = 0, h"
UsesFullHeight(h) == TrimBot(h) <= TrimTop(h) + MIN_USABLE

UsableTop(h) == IF UsesFullHeight(h) THEN 0 ELSE TrimTop(h)
UsableBot(h) == IF UsesFullHeight(h) THEN h ELSE TrimBot(h)

\* band_h = max(1, usable_h // 10)
BandH(usable_h) == Max(1, usable_h \div N_BANDS)

\* every band of the same height: the last band does not reach bot
BandY2NoRemainder(top, bot, band_h, i) == top + i * band_h + band_h

\* y1 and y2 of iteration i (0-based) of the loop
BandY1(top, band_h, i) == top + i * band_h
BandY2(top, bot, band_h, i) ==
  IF i = N_BANDS - 1 THEN bot ELSE BandY1(top, band_h, i) + band_h

\* center_x and right_x0 of the loop body
CenterX(w) == Max(0, Min(w - 1, (w * CENTER_PERMILLE) \div 1000))
RightX0(w) == Min(Max(0, w - ((w * RIGHT_FRACTION_PCT) \div 100)), CenterX(w))

\* Pillow: Image.crop raises ValueError on a box whose lower edge is above its
\* upper edge (or right edge left of its left edge); a box reaching outside the
\* image is padded, and an empty box gives an image of size 0.
CropRaises(x1, y1, x2, y2) == x2 < x1 \/ y2 < y1
\* Pillow: Image.resize raises ValueError when the target or the source is empty
\* right.resize((int(right.width * RIGHT_ZOOM), int(right.height * RIGHT_ZOOM)))
ZoomRaises(width, height) ==
  \/ (width * RIGHT_ZOOM_TENTHS) \div 10 < 1
  \/ (height * RIGHT_ZOOM_TENTHS) \div 10 < 1

\* one run of build_right_only_sprite, at its entry
SpriteEntry(w, h) ==
  [pc |-> "entry", w |-> w, h |-> h, top |-> 0, bot |-> 0, usable_h |-> 0,
   band_h |-> 0, i |-> 0, bands |-> <<>>]

NoSprite == [SpriteEntry(0, 0) EXCEPT !.pc = "none"]

\* lines 171-187: the usable region and the band height
SpriteRegionStep(sp) ==
  LET top == UsableTop(sp.h)
      bot == UsableBot(sp.h)
  IN [sp EXCEPT !.pc = "loop", !.top = top, !.bot = bot,
                !.usable_h = bot - top, !.band_h = BandH(bot - top)]

\* lines 188-216: one iteration of the loop; the crop file of the band is
\* written when nothing before right.save raised
SpriteBandStep(sp) ==
  LET y1 == BandY1(sp.top, sp.band_h, sp.i)
      y2 == BandY2(sp.top, sp.bot, sp.band_h, sp.i)
      x0 == RightX0(sp.w)
      raises == \/ CropRaises(0, y1, sp.w, y2)
                \/ CropRaises(x0, 0, sp.w, y2 - y1)
                \/ ZoomRaises(sp.w - x0, y2 - y1)
  IN IF raises
     THEN [sp EXCEPT !.pc = "raised"]
     ELSE [sp EXCEPT !.i = sp.i + 1,
                     !.bands = Append(sp.bands, [y1 |-> y1, y2 |-> y2])]

\* lines 218-220: the sprite is saved and the paths are returned
SpriteReturnStep(sp) == [sp EXCEPT !.pc = "returned"]

SpriteDone(sp) == sp.pc \in {"returned", "raised"}

SpriteStep(sp) ==
  CASE sp.pc = "entry" -> SpriteRegionStep(sp)
    [] sp.pc = "loop" /\ sp.i < N_BANDS -> SpriteBandStep(sp)
    [] sp.pc = "loop" /\ sp.i >= N_BANDS -> SpriteReturnStep(sp)
    [] OTHER -> sp

RECURSIVE RunSprite(_)
RunSprite(sp) == IF SpriteDone(sp) THEN sp ELSE RunSprite(SpriteStep(sp))

\* ------------------------------------------------------------------------
\* Bounds of the model
\* ------------------------------------------------------------------------
\* deletions of local files that may fail in one request
MaxDelFail == 1
\* length of the exhaustively enumerated short reply texts
MaxReplyLen == 2
\* image sizes of the sprite builder runs
MaxW == 2
MaxH == 120
\* integers tried as raw values: COUNT_MIN - IntSpan .. COUNT_MAX + IntSpan
IntSpan == 5
\* length of the exhaustively enumerated raw strings
MaxStrLen == 2

\* ------------------------------------------------------------------------
\* State
\* ------------------------------------------------------------------------
VARIABLES
  pc,        \* position of the request in api_contar
  req,       \* the request: has_image, filename, and the uploaded bytes' nature
  sprite,    \* the run of build_right_only_sprite
  files,     \* the local files that exist in UPLOAD_FOLDER
  created,   \* the local files this request wrote
  remote,    \* the handles that exist in the external file store
  log,       \* the calls made so far, in order
  reply,     \* what generate_content returned: resp.text
  result,    \* `result` of api_contar
  counts,    \* `counts` of api_contar
  response,  \* the response returned
  delFailed, \* the deletions that raised
  norm       \* a run of normalize_counts_map on its own

vars == << pc, req, sprite, files, created, remote, log, reply, result, counts,
           response, delFailed, norm >>

\* ------------------------------------------------------------------------
\* Paths, handles, calls
\* ------------------------------------------------------------------------
\* save_uploaded_file: f"{uid}_{filename}" in UPLOAD_FOLDER
OrigPath == << "upload", 0 >>
\* f"sprite_right_{uuid}.jpg"
SpritePath == << "sprite_right", 0 >>
\* f"right_{i+1:02d}_{uuid}.jpg", i + 1 in 1..10
CropPath(n) == << "right", n >>
\* right_crops after n iterations
CropPaths(n) == [i \in 1..n |-> CropPath(i)]

SeqToSet(q) == { q[i] : i \in 1..Len(q) }

PromptPart == [kind |-> "text", ref |-> << "ANALYZER_PROMPT", 0 >>]
FilePart(path) == [kind |-> "file", ref |-> path]
NoParts == << >>

\* ok: the call returned; FALSE when it raised
Call(op, arg, parts, ok) == [op |-> op, arg |-> arg, parts |-> parts, ok |-> ok]
NoArg == << "", 0 >>

\* the two images in the other order
GeneratePartsSpriteFirst(up_orig, up_sprite) ==
  << PromptPart, FilePart(up_sprite), FilePart(up_orig) >>

\* the parts of the one generation call: [ANALYZER_PROMPT, up_orig, up_sprite]
GenerateParts(up_orig, up_sprite) ==
  << PromptPart, FilePart(up_orig), FilePart(up_sprite) >>

\* "for up in [up_orig, up_sprite]": the handles of the two uploads
RemoteTargets == << OrigPath, SpritePath >>

\* ------------------------------------------------------------------------
\* Responses
\* ------------------------------------------------------------------------
NoCounts == [k \in {} |-> 0]

MkResponse(status, ok, cnt, raw_debug, error) ==
  [status |-> status, ok |-> ok, counts |-> cnt, raw_debug |-> raw_debug,
   error |-> error]

NoResponse == MkResponse(0, FALSE, NoCounts, PyNone, "")
\* jsonify({"ok": False, "error": ...}), 400 or 500
ErrorResponse(status, error) == MkResponse(status, FALSE, NoCounts, PyNone, error)
\* jsonify({"ok": True, "counts": counts, "model": MODEL, "raw_debug": result})
OkResponse(cnt, res) == MkResponse(200, TRUE, cnt, res, "")

\* the checks without the one of the filename
UploadCheckFieldOnly(r) == IF ~r.has_image THEN "Nenhuma imagem enviada" ELSE ""

\* lines 225-229: the error of the upload checks, "" when they pass
UploadCheck(r) ==
  IF ~r.has_image THEN "Nenhuma imagem enviada"
  ELSE IF r.filename = "" THEN "Nenhuma imagem selecionada"
  ELSE ""

\* ------------------------------------------------------------------------
\* Requests and reply texts tried
\* ------------------------------------------------------------------------
MkRequest(has_image, filename, decodable, w, h) ==
  [has_image |-> has_image, filename |-> filename, decodable |-> decodable,
   w |-> w, h |-> h]

NoRequest == MkRequest(FALSE, "", FALSE, 0, 0)

NoReply == [returned |-> FALSE, text |-> <<>>]
Returned(text) == [returned |-> TRUE, text |-> text]

\* sizes of the uploaded images: one too low for ten bands, one ordinary
ReqSizes == { << 1, N_BANDS - 1 >>, << 4, 100 >> }

Requests ==
  { MkRequest(FALSE, "", FALSE, 0, 0),
    MkRequest(TRUE, "", FALSE, 0, 0),
    MkRequest(TRUE, "abaco.jpg", FALSE, 0, 0) }
  \cup { MkRequest(TRUE, "abaco.jpg", TRUE, wh[1], wh[2]) : wh \in ReqSizes }

RECURSIVE ObjMembers(_)
ObjMembers(pairs) ==
  IF pairs = <<>> THEN <<>>
  ELSE << TStr(Str(Head(pairs)[1])), Tok("colon"), Tok("ws") >>
       \o Head(pairs)[2]
       \o (IF Len(pairs) > 1 THEN << Tok("comma"), Tok("ws") >> ELSE <<>>)
       \o ObjMembers(Tail(pairs))

\* the text of a JSON object; pairs is a sequence of << key, text of the value >>
ObjText(pairs) == << Tok("lb") >> \o ObjMembers(pairs) \o << Tok("rb") >>

\* {"contagem": v}
ContagemReply(v) == ObjText(<< << "contagem", v >> >>)

ListText == << Tok("ls"), TInt(1), Tok("comma"), TInt(2), Tok("rs") >>

\* values of a label in the reply's contagem
ReplyValues ==
  { << TInt(n) >> : n \in {-1000000, -3, 0, 3, 10, 11, 15, 1000000} }
  \cup { << TFlt(37) >>, << TFlt(-5) >>, << TFlt(109) >>,
         << TStr(<< "7" >>) >>, << TStr(<< " ", "1", "5" >>) >>, << TStr(<< "abc" >>) >>,
         << TStr(<<>>) >>, << Tok("true") >>, << Tok("false") >>, << Tok("null") >>,
         << Tok("nan") >>, << TInf(1) >>, << TInf(-1) >>,
         ListText, << Tok("lb"), Tok("rb") >> }

ReplyKeys == { LINES[1], LINES[Len(LINES)], "outro" }

\* the reply the prompt asks for, value i - 1 for label i
SchemaReply ==
  ObjText(<< << "linhas", << Tok("ls"), Tok("rs") >> >>,
             << "contagem",
                ObjText([i \in 1..Len(LINES) |-> << LINES[i], << TInt(i - 1) >> >>]) >> >>)

\* "Here is your answer: ```json {"contagem": {"aerosaculite": 3}} ``` "
FencedReply ==
  << TWord("Here is your answer:"), Tok("ws"), Tok("fence_json"), Tok("ws") >>
  \o ContagemReply(ObjText(<< << "aerosaculite", << TInt(3) >> >> >>))
  \o << Tok("ws"), Tok("fence"), Tok("ws") >>

ObjectReplies ==
  { ContagemReply(ObjText(<< << k, v >> >>)) : k \in ReplyKeys, v \in ReplyValues }
  \cup { ContagemReply(ObjText(<< << LINES[1], << TInt(15) >> >>,
                                  << LINES[2], << TStr(<< "abc" >>) >> >> >>)),
         ContagemReply(ObjText(<< << LINES[1], << TInt(2) >> >>,
                                  << LINES[1], << TInt(4) >> >> >>)),
         ContagemReply(ObjText(<<>>)),
         SchemaReply, FencedReply,
         ObjText(<<>>),
         ObjText(<< << "linhas", << Tok("ls"), Tok("rs") >> >> >>) }

\* a JSON object whose contagem is no object
BadContagemReplies ==
  { ContagemReply(v) : v \in { ListText, << Tok("null") >>, << TInt(5) >>,
                               << TStr(<< "abc" >>) >> } }

\* JSON that is no object
NonObjectReplies == { ListText, << TInt(5) >>, << TStr(<< "abc" >>) >>, << Tok("null") >> }

\* text that is no JSON, with and without braces
ProseReplies ==
  { << >>, << Tok("ws") >>, << TWord("Desculpe") >>,
    << TWord("veja"), Tok("ws"), Tok("lb"), TWord("x"), Tok("rb") >>,
    << Tok("rb"), TWord("x"), Tok("lb") >>,
    << Tok("fence_json"), Tok("lb"), TStr(Str("contagem")), Tok("colon"), Tok("fence") >> }

ReplyAlphabet ==
  { Tok("lb"), Tok("rb"), Tok("ls"), Tok("rs"), TInt(7), TWord("x") }

ShortReplies ==
  UNION { [1..n -> ReplyAlphabet] : n \in 1..MaxReplyLen }

Replies ==
  ObjectReplies \cup BadContagemReplies \cup NonObjectReplies \cup ProseReplies
  \cup ShortReplies

\* ------------------------------------------------------------------------
\* api_contar, step by step.  The "except Exception" of lines 272-273 is part
\* of every step that can raise.
\* ------------------------------------------------------------------------
NoNorm == [pc |-> "none", raw |-> PyNone, out |-> NoCounts, again |-> NoCounts]

\* no request received yet: the upload directory and the file store are empty
Idle ==
  /\ pc = "idle"
  /\ req = NoRequest
  /\ files = {}
  /\ created = {}
  /\ remote = {}
  /\ log = <<>>
  /\ reply = NoReply
  /\ result = PyNone
  /\ counts = NoCounts
  /\ response = NoResponse
  /\ delFailed = {}

Init ==
  /\ Idle
  /\ sprite = NoSprite
  /\ norm = NoNorm

\* lines 272-273
Raise500(error) ==
  /\ pc' = "done"
  /\ response' = ErrorResponse(500, error)

\* lines 225-229
Request ==
  /\ pc = "idle"
  /\ \E r \in Requests :
       /\ req' = r
       /\ IF UploadCheck(r) # ""
          THEN /\ pc' = "done"
               /\ response' = ErrorResponse(400, UploadCheck(r))
          ELSE /\ pc' = "save"
               /\ UNCHANGED response
  /\ UNCHANGED << sprite, files, created, remote, log, reply, result, counts, delFailed, norm >>

\* line 233: save_uploaded_file; a save that raises is taken to leave no file
\* behind (the failure of opening the destination)
SaveUpload ==
  /\ pc = "save"
  /\ \E saved \in BOOLEAN :
       /\ log' = Append(log, Call("save", OrigPath, NoParts, saved))
       /\ files' = IF saved THEN files \cup {OrigPath} ELSE files
       /\ created' = IF saved THEN created \cup {OrigPath} ELSE created
       /\ IF saved
          THEN pc' = "open" /\ UNCHANGED response
          ELSE Raise500("OSError")
  /\ UNCHANGED << req, sprite, remote, reply, result, counts, delFailed, norm >>

\* line 234: Image.open(path).convert("RGB")
OpenImage ==
  /\ pc = "open"
  /\ IF req.decodable
     THEN pc' = "sprite" /\ UNCHANGED response
     ELSE Raise500("UnidentifiedImageError")
  /\ UNCHANGED << req, sprite, files, created, remote, log, reply, result, counts, delFailed, norm >>

\* line 237: build_right_only_sprite(im); the crops written before it raised stay
BuildSprite ==
  /\ pc = "sprite"
  /\ LET run == RunSprite(SpriteEntry(req.w, req.h))
         crops == SeqToSet(CropPaths(Len(run.bands)))
         written == IF run.pc = "returned" THEN crops \cup {SpritePath} ELSE crops
     IN /\ sprite' = run
        /\ files' = files \cup written
        /\ created' = created \cup written
        /\ log' = Append(log, Call("build_sprite", NoArg, NoParts, run.pc = "returned"))
        /\ IF run.pc = "returned"
           THEN pc' = "upload_orig" /\ UNCHANGED response
           ELSE Raise500("ValueError")
  /\ UNCHANGED << req, remote, reply, result, counts, delFailed, norm >>

\* upload_local_image(path): genai.upload_file returns a handle or raises
UploadStep(at, path, next) ==
  /\ pc = at
  /\ \E ok \in BOOLEAN :
       /\ log' = Append(log, Call("upload_file", path, NoParts, ok))
       /\ IF ok
          THEN /\ remote' = remote \cup {path}
               /\ pc' = next
               /\ UNCHANGED response
          ELSE /\ Raise500("upload failed")
               /\ UNCHANGED remote
  /\ UNCHANGED << req, sprite, files, created, reply, result, counts, delFailed, norm >>

\* line 240: up_orig = upload_local_image(path)
UploadOrig == UploadStep("upload_orig", OrigPath, "upload_sprite")

\* line 241: up_sprite = upload_local_image(sprite_path)
UploadSprite == UploadStep("upload_sprite", SpritePath, "generate")

\* lines 243-247 and 143-148: the one generate_content call (timeout 50 s)
\* either raises or returns a text
Generate ==
  /\ pc = "generate"
  /\ \/ /\ log' = Append(log, Call("generate_content", NoArg,
                                   GenerateParts(OrigPath, SpritePath), FALSE))
        /\ Raise500("DeadlineExceeded")
        /\ UNCHANGED << reply, result >>
     \/ \E text \in Replies :
          /\ log' = Append(log, Call("generate_content", NoArg,
                                     GenerateParts(OrigPath, SpritePath), TRUE))
          /\ reply' = Returned(text)
          /\ result' = gemini_generate_json(text)
          /\ pc' = "normalize"
          /\ UNCHANGED response
  /\ UNCHANGED << req, sprite, files, created, remote, counts, delFailed, norm >>

\* lines 249-251
Normalize ==
  /\ pc = "normalize"
  /\ LET contagem == DictGet(result, Str("contagem"), EmptyDict)
     IN IF NormalizeRaises(contagem)
        THEN Raise500("AttributeError") /\ UNCHANGED counts
        ELSE /\ counts' = normalize_counts_map(contagem)
             /\ pc' = "cleanup_remote"
             /\ UNCHANGED response
  /\ UNCHANGED << req, sprite, files, created, remote, log, reply, result, delFailed, norm >>

\* one try around the whole loop: nothing is tried after the first failure
AttemptedUntilFailure(targets, failed) ==
  LET bad == { i \in 1..Len(targets) : targets[i] \in failed }
  IN IF bad = {} THEN targets
     ELSE SubSeq(targets, 1, CHOOSE i \in bad : \A j \in bad : i <= j)

\* "for x in targets: try: delete(x) except Exception: pass": the elements of
\* targets for which the deletion is called, given those whose deletion raises
Attempted(targets, failed) == targets

DeleteCalls(op, targets, failed) ==
  [i \in 1..Len(targets) |-> Call(op, targets[i], NoParts, targets[i] \notin failed)]

\* lines 254-258: genai.delete_file for up_orig and up_sprite
CleanupRemote ==
  /\ pc = "cleanup_remote"
  /\ \E failed \in SUBSET SeqToSet(RemoteTargets) :
       LET tried == Attempted(RemoteTargets, failed)
       IN /\ log' = log \o DeleteCalls("delete_file", tried, failed)
          /\ remote' = remote \ (SeqToSet(tried) \ failed)
          /\ delFailed' = delFailed \cup { << "remote", x >> : x \in SeqToSet(tried) \cap failed }
  /\ pc' = "cleanup_local"
  /\ UNCHANGED << req, sprite, files, created, reply, result, counts, response, norm >>

\* [path, sprite_path, *crop_paths]
LocalTargets == << OrigPath, SpritePath >> \o CropPaths(Len(sprite.bands))

\* lines 259-263: os.remove for every local file
CleanupLocal ==
  /\ pc = "cleanup_local"
  /\ \E failed \in SUBSET SeqToSet(LocalTargets) :
       /\ Cardinality(failed) <= MaxDelFail
       /\ LET tried == Attempted(LocalTargets, failed)
          IN /\ log' = log \o DeleteCalls("remove", tried, failed)
             /\ files' = files \ (SeqToSet(tried) \ failed)
             /\ delFailed' = delFailed \cup { << "local", x >> : x \in SeqToSet(tried) \cap failed }
  /\ pc' = "respond"
  /\ UNCHANGED << req, sprite, created, remote, reply, result, counts, response, norm >>

\* lines 265-270
Respond ==
  /\ pc = "respond"
  /\ response' = OkResponse(counts, result)
  /\ pc' = "done"
  /\ UNCHANGED << req, sprite, files, created, remote, log, reply, result, counts, delFailed, norm >>

Next ==
  \/ Request
  \/ SaveUpload
  \/ OpenImage
  \/ BuildSprite
  \/ UploadOrig
  \/ UploadSprite
  \/ Generate
  \/ Normalize
  \/ CleanupRemote
  \/ CleanupLocal
  \/ Respond

Spec == Init /\ [][Next]_vars

\* ------------------------------------------------------------------------
\* build_right_only_sprite on its own, one step of its body at a time, for
\* every image size within the bounds
\* ------------------------------------------------------------------------
SpriteInit ==
  /\ Idle
  /\ norm = NoNorm
  /\ sprite \in { SpriteEntry(w, h) : w \in 1..MaxW, h \in 1..MaxH }

RequestIdle ==
  UNCHANGED << pc, req, files, created, remote, log, reply, result, counts,
               response, delFailed >>

SpriteRegion ==
  /\ sprite.pc = "entry"
  /\ sprite' = SpriteRegionStep(sprite)
  /\ RequestIdle /\ UNCHANGED norm

SpriteBand ==
  /\ sprite.pc = "loop" /\ sprite.i < N_BANDS
  /\ sprite' = SpriteBandStep(sprite)
  /\ RequestIdle /\ UNCHANGED norm

SpriteReturn ==
  /\ sprite.pc = "loop" /\ sprite.i >= N_BANDS
  /\ sprite' = SpriteReturnStep(sprite)
  /\ RequestIdle /\ UNCHANGED norm

SpriteNext == SpriteRegion \/ SpriteBand \/ SpriteReturn

SpecSprite == SpriteInit /\ [][SpriteNext]_vars

\* ------------------------------------------------------------------------
\* normalize_counts_map on its own, for every raw map within the bounds
\* ------------------------------------------------------------------------
NormKeys == LineSet \cup { "outro" }

RawInts ==
  { PyInt(n) : n \in (COUNT_MIN - IntSpan)..(COUNT_MAX + IntSpan) }
  \cup { PyInt(1000000), PyInt(-1000000) }

RawFloats == { PyFloat(t) : t \in { -1000000, -15, -9, -1, 0, 5, 37, 99, 100, 109, 1000000 } }

StrAlphabet == { " ", "-", "+", "_", "1", "7", ".", "abc" }

RawStrs ==
  { PyStr(s) : s \in UNION { [1..n -> StrAlphabet] : n \in 0..MaxStrLen } }
  \cup { PyStr(<< " ", "1", "7", " " >>), PyStr(<< "1", "_", "1" >>),
         PyStr(<< "7", ".", "7" >>), PyStr(<< "-", " ", "7" >>) }

RawOthers ==
  { PyBool(TRUE), PyBool(FALSE), PyNone, PyNaN, PyInf(1), PyInf(-1),
    PyList(<<>>), PyList(<< PyInt(3) >>), EmptyDict }

RawValues == RawInts \cup RawFloats \cup RawStrs \cup RawOthers

\* a counts map as the dict a reply that satisfies the schema holds
CountsAsDict(cnt) ==
  PyDict([i \in 1..Len(LINES) |-> Str(LINES[i])],
         [i \in 1..Len(LINES) |-> PyInt(cnt[LINES[i]])])

NormInputs ==
  { PyDict(<< Str(k) >>, << v >>) : k \in NormKeys, v \in RawValues }
  \cup { PyDict(<< Str(LINES[1]), Str(LINES[1]) >>, << v, PyInt(4) >>) : v \in RawOthers }
  \cup { PyDict([i \in 1..Len(LINES) |-> Str(LINES[i])],
                [i \in 1..Len(LINES) |-> PyInt(i + shift)]) : shift \in (0 - IntSpan)..IntSpan }
  \cup { EmptyDict }

NormInit ==
  /\ Idle
  /\ sprite = NoSprite
  /\ norm \in { [pc |-> "entry", raw |-> r, out |-> NoCounts, again |-> NoCounts] :
                r \in NormInputs }

\* normalize_counts_map(raw)
NormRun ==
  /\ norm.pc = "entry"
  /\ norm' = [norm EXCEPT !.pc = "returned", !.out = normalize_counts_map(norm.raw)]
  /\ RequestIdle /\ UNCHANGED sprite

\* normalize_counts_map on its own result
NormAgain ==
  /\ norm.pc = "returned"
  /\ norm' = [norm EXCEPT !.pc = "renormalized",
                          !.again = normalize_counts_map(CountsAsDict(norm.out))]
  /\ RequestIdle /\ UNCHANGED sprite

NormNext == NormRun \/ NormAgain

SpecNorm == NormInit /\ [][NormNext]_vars

\* ------------------------------------------------------------------------
\* Properties
\* ------------------------------------------------------------------------
Labels10 ==
  { "aerosaculite", "celulite", "contusao", "hematomas", "hepatite",
    "micoplasmose", "pericardite", "peritonite", "salmonelose", "tuberculose" }

Answered(status) == pc = "done" /\ response.status = status

\* the reply's contagem, as api_contar reads it
Contagem == DictGet(result, Str("contagem"), EmptyDict)

\* C1: every 200 response answers ok with a counts map whose keys are exactly
\* the ten fixed labels and whose values are integers in 0..10, whatever the
\* reply's contagem object held.
C1_CountsWellFormed ==
  Answered(200) =>
    /\ response.ok
    /\ DOMAIN response.counts = Labels10
    /\ \A k \in Labels10 : response.counts[k] \in 0..10

\* a 200 response to a reply whose contagem holds one label only, with 15
C1_Witness ==
  /\ Answered(200)
  /\ Contagem = PyDict(<< Str("aerosaculite") >>, << PyInt(15) >>)
  /\ response.counts["aerosaculite"] = 10
  /\ response.counts["tuberculose"] = 0

NormOut == norm.pc \in { "returned", "renormalized" }

\* the cases of C2 that hold as stated: missing label, integers, idempotence
C2_IntegerCases(k) ==
  LET present == HasKey(norm.raw, Str(k))
      v == DictGet(norm.raw, Str(k), PyNone)
  IN /\ ~present => norm.out[k] = 0
     /\ (present /\ v.t = "int" /\ v.n \in 0..10) => norm.out[k] = v.n
     /\ (present /\ v.t = "int" /\ v.n < 0) => norm.out[k] = 0
     /\ (present /\ v.t = "int" /\ v.n > 10) => norm.out[k] = 10

\* C2 as stated: the value of a label is the raw integer when it is in 0..10,
\* 0 below, 10 above, and 0 when the label is missing or the raw value is
\* non-numeric (a string, null, a list, an object); normalizing a normalized
\* map changes nothing.
C2_AsStated ==
  /\ NormOut =>
       \A k \in Labels10 :
         /\ C2_IntegerCases(k)
         /\ LET v == DictGet(norm.raw, Str(k), PyNone)
            IN v.t \in { "str", "none", "list", "dict" } => norm.out[k] = 0
  /\ norm.pc = "renormalized" => norm.again = norm.out

\* the integer a str denotes to int(): blanks around an optional sign and digits
RECURSIVE DecimalOf(_)
DecimalOf(d) ==
  IF d = <<>> THEN 0
  ELSE LET c == d[Len(d)]
           rest == DecimalOf(SubSeq(d, 1, Len(d) - 1))
       IN IF c = "_" THEN rest
          ELSE 10 * rest + (CHOOSE n \in 0..9 : DigitChars[n + 1] = c)

\* C2, amended: as stated for a missing label and for integers; 0 for a value
\* int() cannot convert (null, a list, an object, NaN, an infinity, a str that
\* holds no integer literal); a str that holds an integer literal gives that
\* integer, clamped to 0..10; normalizing a normalized map changes nothing.
C2_Normalize ==
  /\ NormOut =>
       \A k \in Labels10 :
         /\ C2_IntegerCases(k)
         /\ LET v == DictGet(norm.raw, Str(k), PyNone)
                lit == IntOfStr(v.s)
            IN /\ v.t \in { "none", "list", "dict", "nan", "inf" } => norm.out[k] = 0
               /\ (v.t = "str" /\ ~lit.ok) => norm.out[k] = 0
               /\ (v.t = "str" /\ lit.ok) =>
                    norm.out[k] = (IF lit.n < 0 THEN 0 ELSE IF lit.n > 10 THEN 10 ELSE lit.n)
               /\ (v.t = "str" /\ \A i \in 1..Len(v.s) : IsDigit(v.s[i]) /\ v.s # <<>>) =>
                    norm.out[k] = (IF DecimalOf(v.s) > 10 THEN 10 ELSE DecimalOf(v.s))
               /\ (v.t = "str" /\ \A i \in 1..Len(v.s) : ~IsDigit(v.s[i])) => norm.out[k] = 0
  /\ norm.pc = "renormalized" => norm.again = norm.out

\* the str "7" normalized to 7, and normalized again
C2_Witness ==
  /\ norm.pc = "renormalized"
  /\ norm.raw = PyDict(<< Str("hepatite") >>, << PyStr(<< "7" >>) >>)
  /\ norm.out["hepatite"] = 7
  /\ norm.again = norm.out

\* C3: once the model call returned a text, the request is answered 200 with
\* ok and a counts map, whatever the text.
C3_ReplyNeverFails ==
  (pc = "done" /\ reply.returned) =>
    /\ response.status = 200
    /\ response.ok
    /\ DOMAIN response.counts = Labels10

\* C4: when a request that passed the upload checks is answered, every local
\* file it wrote is gone, unless the deletion of that file failed.
C4_NoLocalFileLeft ==
  (pc = "done" /\ response.status \in { 200, 500 }) =>
    \A f \in created : f \in files => << "local", f >> \in delFailed

\* C5: a request without the image field, or with an empty filename, is
\* answered 400 with an error, and nothing was done for it: no file written,
\* no sprite built, no call to the external model or its file store.
C5_RejectedBeforeProcessing ==
  (pc # "idle" /\ (~req.has_image \/ req.filename = "")) =>
    /\ Answered(400)
    /\ ~response.ok
    /\ response.error # ""
    /\ files = {} /\ created = {} /\ remote = {}
    /\ log = <<>>
    /\ sprite = NoSprite

\* an image field with an empty filename, answered
C5_Witness ==
  /\ pc = "done"
  /\ req.has_image /\ req.filename = ""
  /\ response.status = 400

\* trimming 8% at the top and at the bottom leaves at most 10 px of height h
TrimLeavesAtMost10(h) == ((92 * h) \div 100) - ((8 * h) \div 100) <= 10

SpriteEntered == sprite.pc \in { "loop", "returned", "raised" }

\* C6: when the trimming would leave at most 10 px, the builder uses the full
\* height and does not raise: every band it crops is non-empty, not inverted
\* and inside the image.
C6_FullHeightCompletes ==
  (SpriteEntered /\ TrimLeavesAtMost10(sprite.h)) =>
    /\ sprite.top = 0
    /\ sprite.bot = sprite.h
    /\ sprite.pc # "raised"
    /\ \A j \in 1..Len(sprite.bands) :
         /\ sprite.bands[j].y1 < sprite.bands[j].y2
         /\ 0 <= sprite.bands[j].y1
         /\ sprite.bands[j].y2 <= sprite.h

\* C7: when the trimming leaves more than 10 px, the usable height is the
\* height less a top and a bottom margin of 8% (in whole pixels: the top one
\* rounded down, the bottom one rounded up), the band height is the usable
\* height integer-divided by 10, bands 1..9 have that height and follow each
\* other from the usable top, and band 10 starts where band 9 ends and ends
\* at the usable bottom.
C7_BandGeometry ==
  (SpriteEntered /\ ~TrimLeavesAtMost10(sprite.h)) =>
    LET h == sprite.h
        topMargin == sprite.top
        botMargin == h - sprite.bot
    IN /\ topMargin * 100 <= 8 * h /\ 8 * h < (topMargin + 1) * 100
       /\ (botMargin - 1) * 100 < 8 * h /\ 8 * h <= botMargin * 100
       /\ sprite.usable_h = h - topMargin - botMargin
       /\ sprite.band_h = sprite.usable_h \div 10
       /\ sprite.pc # "raised"
       /\ sprite.pc = "returned" => Len(sprite.bands) = 10
       /\ \A j \in 1..Len(sprite.bands) :
            /\ sprite.bands[j].y1 = (IF j = 1 THEN sprite.top ELSE sprite.bands[j-1].y2)
            /\ j < 10 => sprite.bands[j].y2 - sprite.bands[j].y1 = sprite.band_h
            /\ j = 10 => sprite.bands[j].y2 = sprite.bot

\* a finished sprite whose usable height is no multiple of 10: band 10 is taller
C7_Witness ==
  /\ sprite.pc = "returned"
  /\ ~TrimLeavesAtMost10(sprite.h)
  /\ sprite.usable_h % 10 # 0
  /\ sprite.bands[10].y2 - sprite.bands[10].y1 > sprite.band_h

\* json.loads fails on the cleaned text, and on its {...} part when it has one
Unparseable(text) ==
  LET t == CleanText(text)
  IN /\ ~json_loads(t).ok
     /\ HasBraceMatch(t) => ~json_loads(BraceMatch(t)).ok

\* C8: when the reply text cannot be parsed as JSON at all, the result (and so
\* raw_debug of the 200 response) is a mapping that holds the raw text and
\* nothing else.
C8_ParseFailureAnnotated ==
  (pc = "done" /\ reply.returned /\ Unparseable(reply.text)) =>
    /\ response.status = 200
    /\ result = PyDict(<< Str("_raw") >>, << PyText(Strip(reply.text)) >>)
    /\ response.raw_debug = result

HasCall(op, arg) == \E i \in 1..Len(log) : log[i].op = op /\ log[i].arg = arg

\* C9: before a 200 response a deletion was attempted for both remote handles
\* and for each of the twelve local files, whichever deletions failed, and the
\* response is ok with the counts computed before the cleanup.
C9_CleanupAttemptsAll ==
  Answered(200) =>
    /\ \A h \in { OrigPath, SpritePath } : HasCall("delete_file", h)
    /\ created = { OrigPath, SpritePath } \cup { CropPath(i) : i \in 1..10 }
    /\ \A f \in created : HasCall("remove", f)
    /\ response.ok
    /\ response.counts = counts
    /\ response.counts = normalize_counts_map(Contagem)

\* a 200 response after the first remote and the first local deletion failed
C9_Witness ==
  /\ Answered(200)
  /\ << "remote", OrigPath >> \in delFailed
  /\ << "local", OrigPath >> \in delFailed
  /\ HasCall("remove", CropPath(10))

GenCalls == { i \in 1..Len(log) : log[i].op = "generate_content" }

\* C10: the generation call is made at most once, exactly once before a 200
\* response, only after the save, the sprite build, the upload of the original
\* and the upload of the sprite succeeded in that order, and with the parts
\* prompt, original, sprite.
C10_OneGenerationCall ==
  /\ Cardinality(GenCalls) <= 1
  /\ Answered(200) => Cardinality(GenCalls) = 1
  /\ \A g \in GenCalls :
       /\ log[g].parts = << PromptPart, FilePart(OrigPath), FilePart(SpritePath) >>
       /\ \E a, b, c, d \in 1..(g - 1) :
            /\ a < b /\ b < c /\ c < d
            /\ log[a] = Call("save", OrigPath, NoParts, TRUE)
            /\ log[b] = Call("build_sprite", NoArg, NoParts, TRUE)
            /\ log[c] = Call("upload_file", OrigPath, NoParts, TRUE)
            /\ log[d] = Call("upload_file", SpritePath, NoParts, TRUE)

\* a 200 response with its one generation call, no deletion failed
C10_Witness ==
  /\ Answered(200)
  /\ Cardinality(GenCalls) = 1
  /\ delFailed = {}
====
